---- MODULE Spec2Model ----
(***************************************************************************)
(* Model of the tod-ui synchronisation code.                               *)
(*                                                                         *)
(* Two pieces of the repository reconcile a server Response:               *)
(*   - the library type Model of src/sync.rs (complete_item,               *)
(*     get_inbox_items, update), modelled by the variable `model' and      *)
(*     exercised by the specification ModelSpec;                           *)
(*   - the command line program of src/main.rs, which keeps its state in   *)
(*     the files data/sync.json, data/commands.json and client_auth.toml,  *)
(*     modelled by sync_json, commands_json and client_auth and exercised  *)
(*     by the specification Spec.                                          *)
(*                                                                         *)
(* Option<T> is a sequence of length at most one: None is <<>> and Some(v) *)
(* is <<v>>.  A HashMap is a function; the order in which the code         *)
(* iterates over it is not fixed by the language and is an input `ord' of  *)
(* every operation that iterates.                                          *)
(***************************************************************************)
EXTENDS Integers, Sequences, FiniteSets, TLC

VARIABLES model, sync_json, commands_json, client_auth, next_uuid, last, stops

vars == <<model, sync_json, commands_json, client_auth, next_uuid, last, stops>>

(***************************************************************************)
(* Bounds                                                                  *)
(***************************************************************************)
\* Uuid::new_v4() is called at most MaxUuid times in one behaviour.
MaxUuid == 3
\* A temp_id_mapping or sync_status of a Response has at most MaxMap keys.
MaxMap == 1
\* Display numbers typed by the user range over 0..MaxNumber.
MaxNumber == 2
\* A Response handed to the library Model has at most ModelMaxMap keys in
\* each of its maps.
ModelMaxMap == 2
\* The process stops in the middle of a command at most MaxStops times in one
\* behaviour.
MaxStops == 1

None == <<>>
Some(v) == <<v>>

\* Uuid::to_string: the textual form of a uuid, a string distinct from
\* every server id.
UuidToString(u) == "u" \o ToString(u)

\* All orders in which a HashMap with key set S can be iterated.
Orders(S) ==
    {s \in [1..Cardinality(S) -> S] : \A i, j \in 1..Cardinality(S) : s[i] = s[j] => i = j}

(***************************************************************************)
(* src/sync.rs: the data types                                             *)
(***************************************************************************)
Item(id, project_id, content, checked) ==
    [id |-> id, project_id |-> project_id, content |-> content, checked |-> checked]

User(full_name, inbox_project_id) ==
    [full_name |-> full_name, inbox_project_id |-> inbox_project_id]

UserDefault == User("First Last", "")

\* An item_add command that carries its own uuid as temp_id.
AddItemCommand_OwnTempId(uuid, temp_id, project_id, content) ==
    [request_type |-> "item_add", uuid |-> uuid, temp_id |-> Some(uuid),
     args |-> [project_id |-> project_id, content |-> content]]

\* Command with args AddItemCommandArgs{project_id, content}
AddItemCommand(uuid, temp_id, project_id, content) ==
    [request_type |-> "item_add", uuid |-> uuid, temp_id |-> Some(temp_id),
     args |-> [project_id |-> project_id, content |-> content]]

\* An item_complete command that carries its own uuid as temp_id.
CompleteItemCommand_WithTempId(uuid, id) ==
    [request_type |-> "item_complete", uuid |-> uuid, temp_id |-> Some(uuid),
     args |-> [id |-> id]]

\* Command with args CompleteItemCommandArgs{id}
CompleteItemCommand(uuid, id) ==
    [request_type |-> "item_complete", uuid |-> uuid, temp_id |-> None,
     args |-> [id |-> id]]

Response(sync_token, items, user, full_sync, sync_status, temp_id_mapping) ==
    [sync_token |-> sync_token, items |-> items, user |-> user, full_sync |-> full_sync,
     sync_status |-> sync_status, temp_id_mapping |-> temp_id_mapping]

Request(commands, resource_types, sync_token) ==
    [commands |-> commands, resource_types |-> resource_types, sync_token |-> sync_token]

ModelDefault ==
    [sync_token |-> "*", items |-> <<>>, user |-> UserDefault, commands |-> <<>>]

(***************************************************************************)
(* src/sync.rs: impl Model                                                 *)
(***************************************************************************)
\* items.iter_mut().find(|item| item.id == id): the index of the first item
\* with the given id, 0 when there is none.
FindItem(items, id) ==
    IF \E i \in 1..Len(items) : items[i].id = id
    THEN CHOOSE i \in 1..Len(items) :
            /\ items[i].id = id
            /\ \A j \in 1..(i - 1) : items[j].id # id
    ELSE 0

\* Item::mark_complete
mark_complete(item) == [item EXCEPT !.checked = TRUE]

\* Model::complete_item: Err when no item has the id.
Model_complete_item(m, item_id) ==
    LET i == FindItem(m.items, item_id) IN
    IF i = 0
    THEN [model |-> m, outcome |-> "Err"]
    ELSE [model |-> [m EXCEPT !.items[i] = mark_complete(m.items[i])], outcome |-> "Ok"]

\* The filter of Model::get_inbox_items and of get_inbox_items in main.rs.
InboxFilter(items, inbox_id) ==
    SelectSeq(items, LAMBDA item : item.project_id = inbox_id /\ ~item.checked)

Model_get_inbox_items(m) == InboxFilter(m.items, m.user.inbox_project_id)

\* RemapItem without the test that an item matched: it renames the first
\* item whatever its id.
RemapItem_NoMatchCheck(items, temp_id, real_id) ==
    IF items = <<>> THEN items ELSE [items EXCEPT ![1].id = real_id]

\* The body of the closure over temp_id_mapping: rename the first item whose
\* id is the textual form of temp_id, if there is one.
RemapItem(items, temp_id, real_id) ==
    LET i == FindItem(items, UuidToString(temp_id)) IN
    IF i = 0 THEN items ELSE [items EXCEPT ![i].id = real_id]

\* temp_id_mapping.iter().for_each(...), iterating in the order ord.
RECURSIVE RemapItems(_, _, _)
RemapItems(items, temp_id_mapping, ord) ==
    IF ord = <<>> THEN items
    ELSE RemapItems(RemapItem(items, Head(ord), temp_id_mapping[Head(ord)]),
                    temp_id_mapping, Tail(ord))

\* commands.retain(|command| !status_map.get(uuid.to_string()).is_some_and(== "ok"))
RetainUnacknowledged(commands, status_map) ==
    SelectSeq(commands, LAMBDA command :
        ~(/\ UuidToString(command.uuid) \in DOMAIN status_map
          /\ status_map[UuidToString(command.uuid)] = "ok"))

\* Model::update that extends the items with those of a full sync instead of
\* replacing them.
Model_update_Extends(m, response, ord) ==
    [sync_token |-> response.sync_token,
     user       |-> IF response.user # None THEN response.user[1] ELSE m.user,
     items      |-> IF response.full_sync
                    THEN m.items \o response.items
                    ELSE RemapItems(m.items, response.temp_id_mapping, ord),
     commands   |-> IF response.sync_status # None
                    THEN RetainUnacknowledged(m.commands, response.sync_status[1])
                    ELSE m.commands]

\* Model::update
Model_update(m, response, ord) ==
    [sync_token |-> response.sync_token,
     user       |-> IF response.user # None THEN response.user[1] ELSE m.user,
     items      |-> IF response.full_sync
                    THEN response.items
                    ELSE RemapItems(m.items, response.temp_id_mapping, ord),
     commands   |-> IF response.sync_status # None
                    THEN RetainUnacknowledged(m.commands, response.sync_status[1])
                    ELSE m.commands]

(***************************************************************************)
(* src/main.rs: the functions behind the commands.                         *)
(*                                                                         *)
(* sync_json is the content of data/sync.json and commands_json that of    *)
(* data/commands.json, None while the file does not exist.  sync.json is   *)
(* the serialised Response; of its fields only sync_token, items and user  *)
(* are ever read back, and those are the fields kept here.  Each function  *)
(* returns the files it leaves behind and its outcome: "Ok", "Err" (the    *)
(* function returned an error) or "Panic" (the process aborted).           *)
(***************************************************************************)
StoredData(sync_token, items, user) ==
    [sync_token |-> sync_token, items |-> items, user |-> user]

\* get_commands, and the same lines inlined in add_item and complete_item:
\* the queue in commands.json, empty when the file does not exist.
get_commands(cj) == IF cj # None THEN cj[1] ELSE <<>>

\* get_inbox_items: the stored items of the inbox project that are unchecked.
get_inbox_items(sj) ==
    IF sj = None THEN [outcome |-> "Err", items |-> <<>>]
    ELSE IF sj[1].user = None THEN [outcome |-> "Err", items |-> <<>>]
    ELSE [outcome |-> "Ok",
          items |-> InboxFilter(sj[1].items, sj[1].user[1].inbox_project_id)]

\* add_item that queues the command and does not push the new item.
add_item_NotStored(sj, cj, item, item_id, uuid) ==
    IF sj = None THEN [sync_json |-> sj, commands_json |-> cj, outcome |-> "Err"]
    ELSE IF sj[1].user = None THEN [sync_json |-> sj, commands_json |-> cj, outcome |-> "Err"]
    ELSE
        LET inbox_id == sj[1].user[1].inbox_project_id
            commands == Append(get_commands(cj), AddItemCommand(uuid, item_id, inbox_id, item))
        IN  [sync_json |-> sj, commands_json |-> Some(commands), outcome |-> "Ok"]

\* add_item; item_id and uuid are the two values Uuid::new_v4() returns.
add_item(sj, cj, item, item_id, uuid) ==
    IF sj = None THEN [sync_json |-> sj, commands_json |-> cj, outcome |-> "Err"]
    ELSE IF sj[1].user = None THEN [sync_json |-> sj, commands_json |-> cj, outcome |-> "Err"]
    ELSE
        LET inbox_id == sj[1].user[1].inbox_project_id
            new_item == Item(UuidToString(item_id), inbox_id, item, FALSE)
            data     == [sj[1] EXCEPT !.items = Append(@, new_item)]
            commands == Append(get_commands(cj), AddItemCommand(uuid, item_id, inbox_id, item))
        IN  [sync_json |-> Some(data), commands_json |-> Some(commands), outcome |-> "Ok"]

\* complete_item that marks the item and does not queue the command.
complete_item_NotQueued(sj, cj, number, uuid) ==
    IF sj = None THEN [sync_json |-> sj, commands_json |-> cj, outcome |-> "Err"]
    ELSE
        LET inbox == get_inbox_items(sj) IN
        IF inbox.outcome = "Err"
        THEN [sync_json |-> sj, commands_json |-> cj, outcome |-> "Err"]
        ELSE IF number = 0 \/ number > Len(inbox.items)
        THEN [sync_json |-> sj, commands_json |-> cj, outcome |-> "Panic"]
        ELSE
            LET target_item == inbox.items[number]
                i        == FindItem(sj[1].items, target_item.id)
                data     == [sj[1] EXCEPT !.items[i].checked = TRUE]
            IN  [sync_json |-> Some(data), commands_json |-> cj, outcome |-> "Ok"]

\* complete_item; number is a usize.  number - 1 overflows for number = 0
\* (a panic in a debug build, usize::MAX in a release build, where get() then
\* returns None), and unwrap() panics on None.
complete_item(sj, cj, number, uuid) ==
    IF sj = None THEN [sync_json |-> sj, commands_json |-> cj, outcome |-> "Err"]
    ELSE
        LET inbox == get_inbox_items(sj) IN
        IF inbox.outcome = "Err"
        THEN [sync_json |-> sj, commands_json |-> cj, outcome |-> "Err"]
        ELSE IF number = 0 \/ number > Len(inbox.items)
        THEN [sync_json |-> sj, commands_json |-> cj, outcome |-> "Panic"]
        ELSE
            LET target_item == inbox.items[number]
                i        == FindItem(sj[1].items, target_item.id)
                data     == [sj[1] EXCEPT !.items[i].checked = TRUE]
                commands == Append(get_commands(cj), CompleteItemCommand(uuid, target_item.id))
            IN  [sync_json |-> Some(data), commands_json |-> Some(commands), outcome |-> "Ok"]

\* How many uuids add_item and complete_item draw on the given files.
UuidsOfAdd(sj) == IF sj # None /\ sj[1].user # None THEN 2 ELSE 0
UuidsOfComplete(sj, number) ==
    IF get_inbox_items(sj).outcome = "Ok" /\ number >= 1
       /\ number <= Len(get_inbox_items(sj).items)
    THEN 1 ELSE 0

\* What the server's answer is to the code.  client.post(..).send().await
\* fails on a transport error; on any HTTP status it yields the reply, whose
\* body json::<Response>() then parses: the status code is not looked at.
\* error_status: the HTTP status of the reply is not a success status.
TransportError == [kind |-> "transport_error", error_status |-> FALSE, body |-> None]
HttpReply(error_status, body) ==
    [kind |-> "http", error_status |-> error_status, body |-> body]

\* The parsed Response, None when send() or json() returned an error.
ReceivedResponse(reply) == IF reply.kind = "transport_error" THEN None ELSE reply.body

\* That filter when it removes nothing.
RemoveMatchingCommand_KeepsAll(commands, temp_id) == commands

\* The filter both sync functions apply to the queue for one mapping key.
RemoveMatchingCommand(commands, temp_id) ==
    SelectSeq(commands, LAMBDA command : command.temp_id # Some(temp_id))

RECURSIVE RemoveMatchingCommands(_, _)
RemoveMatchingCommands(commands, ord) ==
    IF ord = <<>> THEN commands
    ELSE RemoveMatchingCommands(RemoveMatchingCommand(commands, Head(ord)), Tail(ord))

\* full_sync that appends the items of the Response to the stored ones.
full_sync_Appends(sj, cj, reply, ord) ==
    LET commands     == get_commands(cj)
        request_body == Request(commands, <<"all">>, "*")
        resp         == ReceivedResponse(reply)
        stored       == IF sj = None THEN <<>> ELSE sj[1].items
    IN  IF resp = None
        THEN [sync_json |-> sj, commands_json |-> cj, outcome |-> "Err",
              request |-> Some(request_body)]
        ELSE [sync_json |-> Some(StoredData(resp[1].sync_token, stored \o resp[1].items,
                                            resp[1].user)),
              commands_json |-> Some(RemoveMatchingCommands(commands, ord)),
              outcome |-> "Ok", request |-> Some(request_body)]

\* full_sync
full_sync(sj, cj, reply, ord) ==
    LET commands     == get_commands(cj)
        request_body == Request(commands, <<"all">>, "*")
        resp         == ReceivedResponse(reply)
    IN  IF resp = None
        THEN [sync_json |-> sj, commands_json |-> cj, outcome |-> "Err",
              request |-> Some(request_body)]
        ELSE [sync_json |-> Some(StoredData(resp[1].sync_token, resp[1].items, resp[1].user)),
              commands_json |-> Some(RemoveMatchingCommands(commands, ord)),
              outcome |-> "Ok", request |-> Some(request_body)]

\* incremental_sync that asks with the sync_token "*" of a full sync.
incremental_sync_StarToken(sync_data, cj, reply, ord) ==
    LET commands     == get_commands(cj)
        request_body == Request(commands, <<"all">>, "*")
        resp         == ReceivedResponse(reply)
    IN  IF resp = None
        THEN [sync_json |-> Some(sync_data), commands_json |-> cj, outcome |-> "Err",
              request |-> Some(request_body)]
        ELSE [sync_json |->
                Some([sync_data EXCEPT
                        !.sync_token = resp[1].sync_token,
                        !.items = RemapItems(@, resp[1].temp_id_mapping, ord)]),
              commands_json |-> Some(RemoveMatchingCommands(commands, ord)),
              outcome |-> "Ok", request |-> Some(request_body)]

\* incremental_sync; sync_data is what get_sync_data read from sync.json.
incremental_sync(sync_data, cj, reply, ord) ==
    LET commands     == get_commands(cj)
        request_body == Request(commands, <<"all">>, sync_data.sync_token)
        resp         == ReceivedResponse(reply)
    IN  IF resp = None
        THEN [sync_json |-> Some(sync_data), commands_json |-> cj, outcome |-> "Err",
              request |-> Some(request_body)]
        ELSE [sync_json |->
                Some([sync_data EXCEPT
                        !.sync_token = resp[1].sync_token,
                        !.items = RemapItems(@, resp[1].temp_id_mapping, ord)]),
              commands_json |-> Some(RemoveMatchingCommands(commands, ord)),
              outcome |-> "Ok", request |-> Some(request_body)]

\* The part of main after a mutation, and `sync --incremental': read the API
\* token, read sync.json, then incremental_sync.
sync_after(sj, cj, auth, reply, ord) ==
    IF ~auth \/ sj = None
    THEN [sync_json |-> sj, commands_json |-> cj, outcome |-> "Err", request |-> None]
    ELSE incremental_sync(sj[1], cj, reply, ord)

(***************************************************************************)
(* The values a server Response is drawn from                              *)
(***************************************************************************)
Tokens == {"t1"}

U1 == User("Ann", "p1")

\* The item lists the server can send: its ids are distinct.
R1 == Item("r1", "p1", "a", FALSE)
R2 == Item("r2", "p1", "d", FALSE)
ServerItemLists == {<<>>, <<R1>>, <<R1, R2>>}

\* Finite maps from at most n keys of K to values of V.
Maps(K, V, n) ==
    UNION {[S -> V] : S \in {T \in SUBSET K : Cardinality(T) <= n}}

\* The real ids of a temp_id_mapping are strings chosen by the server.  For
\* the program they are "r1", which the server also uses in its item lists,
\* and "r3", which it uses nowhere else.  For the library they are "r1" and,
\* as for any string, the textual form of a uuid.
RealIds == {"r1", "r3"}
ModelRealIds == {"r1", UuidToString(2)}

Statuses == {"ok", "error"}

\* The Responses with at most n keys in sync_status and temp_id_mapping.  A
\* Response that is not a full sync carries no items (`items' is optional on
\* the wire and defaults to the empty list).
Responses(mapping_keys, status_keys, real_ids, n) ==
    {Response(t, fi[2], u, fi[1], st, tm) :
        t \in Tokens,
        fi \in {<<FALSE, <<>> >>} \cup {<<TRUE, its>> : its \in ServerItemLists},
        u \in {None, Some(U1)},
        st \in {None} \cup {Some(sm) : sm \in Maps(status_keys, Statuses, n)},
        tm \in Maps(mapping_keys, real_ids, n)}

(***************************************************************************)
(* The history variable `last': the operation that produced the current    *)
(* state, its inputs and the state it started from.                        *)
(***************************************************************************)
\*   op            the library call or the command of main that ran
\*   outcome       how it ended: "Ok", "Err" or "Panic"
\*   local         the outcome of add_item / complete_item, "none" if not called
\*   synced        the outcome of the sync function, "none" if not called
\*   pre_*         the Model and the files before the operation
\*   response, ord the Response given to Model::update and the iteration order
\*   reply, request  the server's answer and the Request sent, if one was sent
\*   view          what get_inbox_items returned to `list'
\*   pending       the process has run its mutation and goes on to sync
\*   mutation      for the sync after a mutation: "add" or "complete"
\*   uuid          the first uuid the mutation drew, 0 if it drew none
NoLast ==
    [op |-> "none", outcome |-> "Ok", local |-> "none", synced |-> "none",
     pre_model |-> ModelDefault, pre_sync |-> None, pre_commands |-> None,
     response |-> None, ord |-> <<>>, item_id |-> "",
     todo |-> "", number |-> 0, no_sync |-> TRUE, incremental |-> FALSE,
     request |-> None, reply |-> None, view |-> <<>>, pending |-> FALSE,
     mutation |-> "none", uuid |-> 0]

(***************************************************************************)
(* ModelSpec: the library Model under arbitrary Responses                  *)
(***************************************************************************)
\* The Models a caller of the library starts from: items with distinct ids,
\* some of them added locally (their id is the text of a uuid), and a queue
\* of commands with distinct uuids.  The fields of Model and Item are public
\* and project_id is any String: NoProjectItem is an item whose project_id
\* is the empty string.
LocalItem1 == Item(UuidToString(1), "p1", "a", FALSE)
LocalItem2 == Item(UuidToString(2), "p1", "b", FALSE)
NoProjectItem == Item("r2", "", "c", FALSE)
InitItemLists ==
    {<<>>, <<LocalItem1>>, <<LocalItem1, LocalItem2>>, <<R1, LocalItem1>>, <<LocalItem2, R1>>,
     <<R1, NoProjectItem>>}
InitQueues ==
    {<<>>,
     <<AddItemCommand(3, 1, "p1", "a")>>,
     <<AddItemCommand(3, 1, "p1", "a"), CompleteItemCommand(4, "r1")>>}
InitModels ==
    {[sync_token |-> "*", items |-> its, user |-> u, commands |-> q] :
        its \in InitItemLists, u \in {UserDefault, U1}, q \in InitQueues}

\* The keys a Response given to the library can carry.
ModelMappingKeys == {1, 2}
ModelStatusKeys == {UuidToString(3), UuidToString(4)}
ModelItemIds == {UuidToString(1), UuidToString(2), "r1"}

ModelInit ==
    /\ model \in InitModels
    /\ sync_json = None
    /\ commands_json = None
    /\ client_auth = FALSE
    /\ next_uuid = 1
    /\ last = NoLast
    /\ stops = 0

\* The record of a call is dropped when the call has returned; the next
\* operation starts from there.
Return ==
    /\ last # NoLast
    /\ ~last.pending
    /\ last' = NoLast
    /\ UNCHANGED <<model, sync_json, commands_json, client_auth, next_uuid, stops>>

ModelResponses == Responses(ModelMappingKeys, ModelStatusKeys, ModelRealIds, ModelMaxMap)

\* A call of Model::update with any Response.
ModelUpdate ==
    /\ last = NoLast
    /\ \E response \in ModelResponses :
         \E ord \in Orders(DOMAIN response.temp_id_mapping) :
            /\ model' = Model_update(model, response, ord)
            /\ last' = [NoLast EXCEPT !.op = "update", !.pre_model = model,
                                      !.response = Some(response), !.ord = ord]
    /\ UNCHANGED <<sync_json, commands_json, client_auth, next_uuid, stops>>

\* A call of Model::complete_item with any id.
ModelCompleteItem ==
    /\ last = NoLast
    /\ \E item_id \in ModelItemIds :
         LET r == Model_complete_item(model, item_id) IN
            /\ model' = r.model
            /\ last' = [NoLast EXCEPT !.op = "complete_item", !.pre_model = model,
                                      !.item_id = item_id, !.outcome = r.outcome]
    /\ UNCHANGED <<sync_json, commands_json, client_auth, next_uuid, stops>>

\* A call of Model::get_inbox_items.
ModelGetInboxItems ==
    /\ last = NoLast
    /\ last' = [NoLast EXCEPT !.op = "get_inbox_items", !.pre_model = model,
                              !.view = Model_get_inbox_items(model)]
    /\ UNCHANGED <<model, sync_json, commands_json, client_auth, next_uuid, stops>>

ModelNext ==
    \/ ModelUpdate
    \/ ModelCompleteItem
    \/ ModelGetInboxItems
    \/ Return

ModelSpec == ModelInit /\ [][ModelNext]_vars

(***************************************************************************)
(* Spec: the command line program, one action per command of main          *)
(***************************************************************************)
Todos == {"a", "b"}

\* The uuids a temp_id_mapping can have as keys: those the client still
\* holds as the temp_id of a queued command or as the id of a stored item.
TempIds(sj, commands, issued) ==
    {u \in 1..(issued - 1) :
        \/ \E i \in 1..Len(commands) : commands[i].temp_id = Some(u)
        \/ sj # None /\ \E i \in 1..Len(sj[1].items) : sj[1].items[i].id = UuidToString(u)}

\* The answers the server can give to a request carrying `commands': a
\* transport error, or a reply with a success or an error status whose body
\* is malformed (None) or a Response.  The keys of sync_status are the uuids
\* of the commands sent.
Replies(sj, commands, issued) ==
    {TransportError} \cup
    {HttpReply(error_status, body) :
        error_status \in BOOLEAN,
        body \in {None} \cup
                 {Some(r) : r \in Responses(TempIds(sj, commands, issued),
                                            {UuidToString(commands[i].uuid) : i \in 1..Len(commands)},
                                            RealIds, MaxMap)}}

\* The orders in which the temp_id_mapping of a reply can be iterated.
ReplyOrders(reply) ==
    IF ReceivedResponse(reply) = None THEN {<<>>}
    ELSE Orders(DOMAIN ReceivedResponse(reply)[1].temp_id_mapping)

Init ==
    /\ model = ModelDefault
    /\ sync_json = None
    /\ commands_json = None
    /\ client_auth = FALSE
    /\ next_uuid = 1
    /\ last = NoLast
    /\ stops = 0

Started(op) ==
    [NoLast EXCEPT !.op = op, !.pre_sync = sync_json, !.pre_commands = commands_json]

\* `add <todo> [--no-sync]', up to the return of add_item.  Without
\* --no-sync the process goes on with SyncAfterMutation.
CmdAddTodo ==
    /\ last = NoLast
    /\ next_uuid + UuidsOfAdd(sync_json) - 1 <= MaxUuid
    /\ \E todo \in Todos, no_sync \in BOOLEAN :
         LET a == add_item(sync_json, commands_json, todo, next_uuid, next_uuid + 1) IN
            /\ sync_json' = a.sync_json
            /\ commands_json' = a.commands_json
            /\ last' = [Started("add") EXCEPT !.todo = todo, !.no_sync = no_sync,
                           !.local = a.outcome, !.outcome = a.outcome,
                           !.uuid = IF a.outcome = "Ok" THEN next_uuid ELSE 0,
                           !.pending = ~no_sync /\ a.outcome = "Ok"]
    /\ next_uuid' = next_uuid + UuidsOfAdd(sync_json)
    /\ UNCHANGED <<model, client_auth, stops>>

\* `complete <number> [--no-sync]', up to the return of complete_item.
CmdCompleteTodo ==
    /\ last = NoLast
    /\ \E number \in 0..MaxNumber, no_sync \in BOOLEAN :
         LET c == complete_item(sync_json, commands_json, number, next_uuid) IN
            /\ next_uuid + UuidsOfComplete(sync_json, number) - 1 <= MaxUuid
            /\ sync_json' = c.sync_json
            /\ commands_json' = c.commands_json
            /\ next_uuid' = next_uuid + UuidsOfComplete(sync_json, number)
            /\ last' = [Started("complete") EXCEPT !.number = number, !.no_sync = no_sync,
                           !.local = c.outcome, !.outcome = c.outcome,
                           !.uuid = IF c.outcome = "Ok" THEN next_uuid ELSE 0,
                           !.pending = ~no_sync /\ c.outcome = "Ok"]
    /\ UNCHANGED <<model, client_auth, stops>>

\* The record of the sync that follows the mutation recorded in `last'.
StartedAfterMutation ==
    [Started("sync") EXCEPT !.incremental = TRUE, !.mutation = last.op,
                            !.uuid = last.uuid, !.todo = last.todo, !.number = last.number]

\* The rest of `add' and `complete' without --no-sync: the API token and
\* sync.json are read and incremental_sync runs.
SyncAfterMutation ==
    /\ last.pending
    /\ IF client_auth
       THEN \E reply \in Replies(sync_json, get_commands(commands_json), next_uuid) :
            \E ord \in ReplyOrders(reply) :
              LET s == sync_after(sync_json, commands_json, client_auth, reply, ord) IN
                 /\ sync_json' = s.sync_json
                 /\ commands_json' = s.commands_json
                 /\ last' = [StartedAfterMutation EXCEPT
                                !.synced = s.outcome, !.outcome = s.outcome,
                                !.reply = Some(reply), !.ord = ord, !.request = s.request]
       ELSE /\ last' = [StartedAfterMutation EXCEPT !.outcome = "Err"]
            /\ UNCHANGED <<sync_json, commands_json>>
    /\ UNCHANGED <<model, client_auth, next_uuid, stops>>

\* `list'
CmdListInbox ==
    /\ last = NoLast
    /\ last' = [Started("list") EXCEPT !.outcome = get_inbox_items(sync_json).outcome,
                                       !.view = get_inbox_items(sync_json).items]
    /\ UNCHANGED <<model, sync_json, commands_json, client_auth, next_uuid, stops>>

\* `set-token <token>'
CmdSetApiToken ==
    /\ last = NoLast
    /\ client_auth' = TRUE
    /\ last' = Started("set-token")
    /\ UNCHANGED <<model, sync_json, commands_json, next_uuid, stops>>

\* `sync' and `sync --incremental' when there is no API token, or no
\* sync.json for the incremental sync: the command fails before a request.
CmdSyncNotSent ==
    /\ last = NoLast
    /\ \E incremental \in BOOLEAN :
         /\ ~client_auth \/ (incremental /\ sync_json = None)
         /\ last' = [Started("sync") EXCEPT !.incremental = incremental, !.outcome = "Err"]
    /\ UNCHANGED <<model, sync_json, commands_json, client_auth, next_uuid, stops>>

\* `sync': full_sync
CmdSyncFull ==
    /\ last = NoLast
    /\ client_auth
    /\ \E reply \in Replies(sync_json, get_commands(commands_json), next_uuid) : \E ord \in ReplyOrders(reply) :
         LET s == full_sync(sync_json, commands_json, reply, ord) IN
            /\ sync_json' = s.sync_json
            /\ commands_json' = s.commands_json
            /\ last' = [Started("sync") EXCEPT !.incremental = FALSE,
                           !.synced = s.outcome, !.outcome = s.outcome,
                           !.reply = Some(reply), !.ord = ord, !.request = s.request]
    /\ UNCHANGED <<model, client_auth, next_uuid, stops>>

\* `sync --incremental': incremental_sync on the stored data
CmdSyncIncremental ==
    /\ last = NoLast
    /\ client_auth
    /\ sync_json # None
    /\ \E reply \in Replies(sync_json, get_commands(commands_json), next_uuid) : \E ord \in ReplyOrders(reply) :
         LET s == sync_after(sync_json, commands_json, client_auth, reply, ord) IN
            /\ sync_json' = s.sync_json
            /\ commands_json' = s.commands_json
            /\ last' = [Started("sync") EXCEPT !.incremental = TRUE,
                           !.synced = s.outcome, !.outcome = s.outcome,
                           !.reply = Some(reply), !.ord = ord, !.request = s.request]
    /\ UNCHANGED <<model, client_auth, next_uuid, stops>>

Next ==
    \/ CmdAddTodo
    \/ CmdCompleteTodo
    \/ SyncAfterMutation
    \/ CmdListInbox
    \/ CmdSetApiToken
    \/ CmdSyncNotSent
    \/ CmdSyncFull
    \/ CmdSyncIncremental
    \/ Return

Spec == Init /\ [][Next]_vars

(***************************************************************************)
(* CrashSpec: the program when the process can also stop (be killed, lose  *)
(* power) while a command runs.  add_item, complete_item, full_sync and    *)
(* incremental_sync each write sync.json first and commands.json second;   *)
(* a write of a file is taken as one step, so a process that stops leaves  *)
(* the files as they were before the command, as the command leaves them,  *)
(* or with sync.json written and commands.json not.  The outcome of a      *)
(* stopped process is "Stopped"; stops counts the stops so far.            *)
(***************************************************************************)
\* `add' stops between the write of sync.json and that of commands.json.
StopInAddTodo ==
    /\ last = NoLast
    /\ stops < MaxStops
    /\ next_uuid <= MaxUuid
    /\ \E todo \in Todos :
         LET a == add_item(sync_json, commands_json, todo, next_uuid, next_uuid + 1) IN
            /\ a.outcome = "Ok"
            /\ sync_json' = a.sync_json
            /\ last' = [Started("add") EXCEPT !.todo = todo, !.local = "Stopped",
                           !.outcome = "Stopped", !.uuid = next_uuid]
    /\ next_uuid' = next_uuid + 1
    /\ stops' = stops + 1
    /\ UNCHANGED <<model, commands_json, client_auth>>

\* `complete' stops between the write of sync.json and that of commands.json.
StopInCompleteTodo ==
    /\ last = NoLast
    /\ stops < MaxStops
    /\ \E number \in 1..MaxNumber :
         LET c == complete_item(sync_json, commands_json, number, next_uuid) IN
            /\ c.outcome = "Ok"
            /\ sync_json' = c.sync_json
            /\ last' = [Started("complete") EXCEPT !.number = number, !.local = "Stopped",
                           !.outcome = "Stopped"]
    /\ stops' = stops + 1
    /\ UNCHANGED <<model, commands_json, client_auth, next_uuid>>

\* `add' or `complete' without --no-sync stops after the mutation has
\* returned and before incremental_sync writes a file.
StopBeforeSync ==
    /\ last.pending
    /\ stops < MaxStops
    /\ last' = [last EXCEPT !.pending = FALSE, !.outcome = "Stopped"]
    /\ stops' = stops + 1
    /\ UNCHANGED <<model, sync_json, commands_json, client_auth, next_uuid>>

\* The sync after a mutation stops between the write of sync.json and that
\* of commands.json.
StopInSyncAfterMutation ==
    /\ last.pending
    /\ stops < MaxStops
    /\ client_auth
    /\ \E reply \in Replies(sync_json, get_commands(commands_json), next_uuid) :
       \E ord \in ReplyOrders(reply) :
         LET s == sync_after(sync_json, commands_json, client_auth, reply, ord) IN
            /\ s.outcome = "Ok"
            /\ sync_json' = s.sync_json
            /\ last' = [StartedAfterMutation EXCEPT
                           !.synced = "Stopped", !.outcome = "Stopped",
                           !.reply = Some(reply), !.ord = ord, !.request = s.request]
    /\ stops' = stops + 1
    /\ UNCHANGED <<model, commands_json, client_auth, next_uuid>>

\* `sync' stops between the write of sync.json and that of commands.json.
StopInSyncFull ==
    /\ last = NoLast
    /\ stops < MaxStops
    /\ client_auth
    /\ \E reply \in Replies(sync_json, get_commands(commands_json), next_uuid) :
       \E ord \in ReplyOrders(reply) :
         LET s == full_sync(sync_json, commands_json, reply, ord) IN
            /\ s.outcome = "Ok"
            /\ sync_json' = s.sync_json
            /\ last' = [Started("sync") EXCEPT !.incremental = FALSE,
                           !.synced = "Stopped", !.outcome = "Stopped",
                           !.reply = Some(reply), !.ord = ord, !.request = s.request]
    /\ stops' = stops + 1
    /\ UNCHANGED <<model, commands_json, client_auth, next_uuid>>

\* `sync --incremental' stops between the two writes.
StopInSyncIncremental ==
    /\ last = NoLast
    /\ stops < MaxStops
    /\ client_auth
    /\ sync_json # None
    /\ \E reply \in Replies(sync_json, get_commands(commands_json), next_uuid) :
       \E ord \in ReplyOrders(reply) :
         LET s == sync_after(sync_json, commands_json, client_auth, reply, ord) IN
            /\ s.outcome = "Ok"
            /\ sync_json' = s.sync_json
            /\ last' = [Started("sync") EXCEPT !.incremental = TRUE,
                           !.synced = "Stopped", !.outcome = "Stopped",
                           !.reply = Some(reply), !.ord = ord, !.request = s.request]
    /\ stops' = stops + 1
    /\ UNCHANGED <<model, commands_json, client_auth, next_uuid>>

CrashNext ==
    \/ Next
    \/ StopInAddTodo
    \/ StopInCompleteTodo
    \/ StopBeforeSync
    \/ StopInSyncAfterMutation
    \/ StopInSyncFull
    \/ StopInSyncIncremental

CrashSpec == Init /\ [][CrashNext]_vars

(***************************************************************************)
(* Properties                                                              *)
(***************************************************************************)
DistinctIds(items) ==
    \A i, j \in 1..Len(items) : items[i].id = items[j].id => i = j

StoredItems(sj) == IF sj = None THEN <<>> ELSE sj[1].items

\* The program has folded a Response into its files.
Reconciled == last.op = "sync" /\ last.synced = "Ok"
ReconciledResponse == ReceivedResponse(last.reply[1])[1]

\* The Response given to the last call of Model::update.
UpdateResponse == last.response[1]

\* sync_status maps the uuid of the command, as a string, to exactly "ok".
AckedOk(response, command) ==
    /\ response.sync_status # None
    /\ UuidToString(command.uuid) \in DOMAIN response.sync_status[1]
    /\ response.sync_status[1][UuidToString(command.uuid)] = "ok"

\* The queue that pruning by sync_status leaves.
Unacknowledged(commands, response) ==
    SelectSeq(commands, LAMBDA c : ~AckedOk(response, c))

\* C1 - Queue pruning: after every reconciliation by the program (`sync',
\* `sync --incremental' and the sync after a mutation) the queue holds
\* exactly the commands of the queue before it that sync_status does not map
\* to "ok", unchanged and in their order.
C1_QueuePruning ==
    Reconciled =>
        get_commands(commands_json) =
            Unacknowledged(get_commands(last.pre_commands), ReconciledResponse)

\* The same statement for Model::update of the library, which satisfies it.
C1_QueuePruningOfModelUpdate ==
    last.op = "update" =>
        model.commands = Unacknowledged(last.pre_model.commands, UpdateResponse)

\* C2 - Idempotence of reconciliation: for every Model and every Response,
\* Model::update applied a second time with the same Response, in any
\* iteration order, leaves the Model as the first application left it.
C2_Idempotent ==
    last.op = "update" =>
        \A ord2 \in Orders(DOMAIN UpdateResponse.temp_id_mapping) :
            Model_update(model, UpdateResponse, ord2) = model

\* No real id of the mapping is the textual form of one of its temp ids.
NoChainedIds(temp_id_mapping) ==
    \A k1, k2 \in DOMAIN temp_id_mapping : temp_id_mapping[k1] # UuidToString(k2)

\* C2 as amended: the same, for a Model whose item ids are distinct and a
\* Response in whose temp_id_mapping no real id is the textual form of one
\* of the mapping's temp ids.
C2_IdempotentOnDistinctIds ==
    (/\ last.op = "update"
     /\ DistinctIds(last.pre_model.items)
     /\ NoChainedIds(UpdateResponse.temp_id_mapping)) =>
        \A ord2 \in Orders(DOMAIN UpdateResponse.temp_id_mapping) :
            Model_update(model, UpdateResponse, ord2) = model

\* An incremental update of a Model with distinct ids by a mapping without
\* chained ids has renamed an item and pruned a command.
C2_Witness ==
    /\ last.op = "update"
    /\ ~UpdateResponse.full_sync
    /\ DistinctIds(last.pre_model.items)
    /\ NoChainedIds(UpdateResponse.temp_id_mapping)
    /\ model.items # last.pre_model.items
    /\ Len(model.commands) < Len(last.pre_model.commands)

\* C3 - Full-sync replacement: after every reconciliation by the program of
\* a Response with full_sync = true, the stored items are exactly the items
\* of the Response.
C3_FullSyncReplacement ==
    (Reconciled /\ ReconciledResponse.full_sync) =>
        StoredItems(sync_json) = ReconciledResponse.items

\* The same statement for Model::update of the library, which satisfies it.
C3_FullSyncReplacementOfModelUpdate ==
    (last.op = "update" /\ UpdateResponse.full_sync) =>
        model.items = UpdateResponse.items

\* What the claim says one (temp_id, real_id) pair does to a list of items:
\* with an item whose id is temp_id, exactly that one item gets the id
\* real_id and nothing else changes; without one, nothing changes.
PairApplied(before, after, temp_id, real_id) ==
    IF \E i \in 1..Len(before) : before[i].id = UuidToString(temp_id)
    THEN \E i \in 1..Len(before) :
            /\ before[i].id = UuidToString(temp_id)
            /\ after = [before EXCEPT ![i].id = real_id]
    ELSE after = before

\* The effect of an incremental reconciliation from the items pre to the
\* items post with the mapping iterated in the order ord.
RemapFrame(pre, post, temp_id_mapping, ord) ==
    /\ post = RemapItems(pre, temp_id_mapping, ord)
    /\ Len(post) = Len(pre)
    /\ \A i \in 1..Len(pre) :
        /\ post[i].content = pre[i].content
        /\ post[i].project_id = pre[i].project_id
        /\ post[i].checked = pre[i].checked
        /\ (\A k \in DOMAIN temp_id_mapping : pre[i].id # UuidToString(k)) => post[i] = pre[i]
    /\ \A n \in 1..Len(ord) :
        PairApplied(RemapItems(pre, temp_id_mapping, SubSeq(ord, 1, n - 1)),
                    RemapItems(pre, temp_id_mapping, SubSeq(ord, 1, n)),
                    ord[n], temp_id_mapping[ord[n]])

\* C4 - Temp-id remap on the incremental path: Model::update with a
\* Response with full_sync = false applies the pairs of temp_id_mapping one
\* after the other; each pair gives the item whose id is temp_id the id
\* real_id and is ignored when no item matches; no item is added, removed or
\* reordered, content, project_id and checked of every item are untouched
\* and items matched by no pair are unchanged.
C4_TempIdRemap ==
    (last.op = "update" /\ ~UpdateResponse.full_sync) =>
        RemapFrame(last.pre_model.items, model.items,
                   UpdateResponse.temp_id_mapping, last.ord)

\* The same statement for incremental_sync of the program.
C4_TempIdRemapOfIncrementalSync ==
    (Reconciled /\ last.incremental /\ ~ReconciledResponse.full_sync) =>
        RemapFrame(StoredItems(last.pre_sync), StoredItems(sync_json),
                   ReconciledResponse.temp_id_mapping, last.ord)

\* An incremental update with two pairs, one that renamed an item and one
\* that matched no item.
C4_Witness ==
    /\ last.op = "update"
    /\ ~UpdateResponse.full_sync
    /\ Len(last.ord) = 2
    /\ \E i \in 1..Len(model.items) :
        /\ last.pre_model.items[i].id = UuidToString(last.ord[1])
        /\ model.items[i].id = UpdateResponse.temp_id_mapping[last.ord[1]]
        /\ model.items[i].id # last.pre_model.items[i].id
    /\ \A i \in 1..Len(model.items) : model.items[i].id # UuidToString(last.ord[2])
    /\ \A i \in 1..Len(model.items) :
        last.pre_model.items[i].id # UuidToString(last.ord[2])
    /\ Len(model.items) = 2

\* The attempt failed: a transport error, a non-success status or a
\* malformed body.
FailedReply(reply) ==
    reply.kind = "transport_error" \/ reply.error_status \/ reply.body = None

\* C5 - A failed sync attempt, full or incremental, leaves sync.json and
\* commands.json exactly as they were before the attempt.
C5_FailedSyncLeavesModel ==
    (last.op = "sync" /\ last.reply # None /\ FailedReply(last.reply[1])) =>
        /\ sync_json = last.pre_sync
        /\ commands_json = last.pre_commands

\* The part of C5 the code keeps: when send() or json() returns an error,
\* both files are as before the attempt.
C5_ErrorLeavesModel ==
    (last.op = "sync" /\ last.outcome = "Err") =>
        /\ sync_json = last.pre_sync
        /\ commands_json = last.pre_commands

\* The inbox view of the files a command started from.
InboxBefore == get_inbox_items(last.pre_sync)

\* `complete <number>' ran with a number outside 1..len(inbox view).
CompletedOutOfRange ==
    /\ last.op = "complete"
    /\ InboxBefore.outcome = "Ok"
    /\ (last.number = 0 \/ last.number > Len(InboxBefore.items))

\* C6 - Bounds safety: `complete <number>' with a number outside
\* 1..len(inbox view) returns an error, does not abort the process and leaves
\* the stored items and the queue unchanged.
C6_BoundsSafety ==
    CompletedOutOfRange =>
        /\ last.local = "Err"
        /\ sync_json = last.pre_sync
        /\ commands_json = last.pre_commands

\* The part of C6 the code keeps: the files are unchanged.
C6_OutOfRangeLeavesFiles ==
    CompletedOutOfRange =>
        /\ sync_json = last.pre_sync
        /\ commands_json = last.pre_commands

\* C7 - Optimistic visibility: when add_item has returned Ok for the todo x,
\* and before any sync, the inbox view ListInbox shows holds an item with
\* content x.
C7_OptimisticVisibility ==
    (last.op = "add" /\ last.local = "Ok") =>
        /\ get_inbox_items(sync_json).outcome = "Ok"
        /\ \E i \in 1..Len(get_inbox_items(sync_json).items) :
            get_inbox_items(sync_json).items[i].content = last.todo

\* A todo was added to an inbox that already showed a server item, and no
\* sync follows.
C7_Witness ==
    /\ last.op = "add"
    /\ last.local = "Ok"
    /\ last.no_sync
    /\ Len(InboxBefore.items) >= 1
    /\ Len(get_inbox_items(sync_json).items) = Len(InboxBefore.items) + 1

\* The case of C8: a full sync of a queue that holds exactly the item_add
\* command of a stored, unconfirmed item, answered with full_sync = true, the
\* item echoed under a server id, "ok" for the command and no mapping.
AddThenFullSync ==
    /\ Reconciled
    /\ ~last.incremental
    /\ Len(get_commands(last.pre_commands)) = 1
    /\ LET command == get_commands(last.pre_commands)[1] IN
        /\ command.request_type = "item_add"
        /\ \E i \in 1..Len(StoredItems(last.pre_sync)) :
            StoredItems(last.pre_sync)[i].id = UuidToString(command.temp_id[1])
        /\ AckedOk(ReconciledResponse, command)
        /\ \E i \in 1..Len(ReconciledResponse.items) :
            /\ ReconciledResponse.items[i].content = command.args.content
            /\ ReconciledResponse.items[i].id # UuidToString(command.temp_id[1])
    /\ ReconciledResponse.full_sync
    /\ DOMAIN ReconciledResponse.temp_id_mapping = {}

\* C8 - End-to-end add then full sync: in that case the stored items are
\* exactly the items of the Response, the queue is empty and the stored
\* sync_token is that of the Response.
C8_AddThenFullSync ==
    AddThenFullSync =>
        /\ StoredItems(sync_json) = ReconciledResponse.items
        /\ get_commands(commands_json) = <<>>
        /\ sync_json[1].sync_token = ReconciledResponse.sync_token

\* A command of the queue q.
InQueue(command, q) == \E i \in 1..Len(q) : q[i] = command

\* C9 - Retry policy: every sync request carries the whole queue; a
\* reconciliation drops no command that was not acknowledged with "ok"; and
\* a reconciliation whose Response acknowledges every queued command with
\* "ok" leaves the queue empty, for item_add and item_complete alike.
C9_RetryPolicy ==
    /\ last.request # None => last.request[1].commands = get_commands(last.pre_commands)
    /\ Reconciled =>
        /\ \A i \in 1..Len(get_commands(last.pre_commands)) :
            LET command == get_commands(last.pre_commands)[i] IN
                ~AckedOk(ReconciledResponse, command) =>
                    InQueue(command, get_commands(commands_json))
        /\ (\A i \in 1..Len(get_commands(last.pre_commands)) :
                AckedOk(ReconciledResponse, get_commands(last.pre_commands)[i]))
            => get_commands(commands_json) = <<>>

\* C10 - Item id uniqueness: in every state the program reaches through add,
\* complete and reconciliations with any temp_id_mapping, no two stored
\* items hold the same id.
C10_ItemIdsUnique == DistinctIds(StoredItems(sync_json))

\* The ids a reconciliation brings in are fresh: the items of a Response
\* stored by the full sync have distinct ids, and the real ids of a mapping
\* applied by the incremental sync are pairwise distinct and held by no
\* stored item.
FreshIds ==
    Reconciled =>
        IF last.incremental
        THEN LET tm == ReconciledResponse.temp_id_mapping IN
                /\ \A k1, k2 \in DOMAIN tm : tm[k1] = tm[k2] => k1 = k2
                /\ \A k \in DOMAIN tm : \A i \in 1..Len(StoredItems(last.pre_sync)) :
                        StoredItems(last.pre_sync)[i].id # tm[k]
        ELSE DistinctIds(ReconciledResponse.items)

\* C10 as amended: add, complete and every reconciliation that brings in
\* fresh ids lead from stored items with distinct ids to stored items with
\* distinct ids.
C10_ItemIdsUniqueWithFreshIds ==
    (last.op # "none" /\ DistinctIds(StoredItems(last.pre_sync)) /\ FreshIds) =>
        DistinctIds(StoredItems(sync_json))

\* An incremental sync renamed the temp id of one of two stored items to a
\* fresh real id.
C10_Witness ==
    /\ Reconciled
    /\ last.incremental
    /\ FreshIds
    /\ DistinctIds(StoredItems(last.pre_sync))
    /\ Len(StoredItems(sync_json)) = 2
    /\ StoredItems(sync_json) # StoredItems(last.pre_sync)

\* The mutation the process ran before its sync, or is running.
MutationKind == IF last.op = "sync" THEN last.mutation ELSE last.op

\* The queue q holds the command of that mutation: the item_add command
\* whose temp_id is the uuid of the new item, or the item_complete command
\* with the uuid drawn.
MutationQueued(q) ==
    \E i \in 1..Len(q) :
        IF MutationKind = "add"
        THEN /\ q[i].request_type = "item_add"
             /\ q[i].temp_id = Some(last.uuid)
             /\ q[i].args.content = last.todo
        ELSE /\ q[i].request_type = "item_complete"
             /\ q[i].uuid = last.uuid

\* The items hold the item change of that mutation: the new unchecked item,
\* or checked = true on the item the queued item_complete command names.
MutationStored(items, q) ==
    IF MutationKind = "add"
    THEN \E i \in 1..Len(items) :
            /\ items[i].id = UuidToString(last.uuid)
            /\ items[i].content = last.todo
            /\ ~items[i].checked
    ELSE \E k \in 1..Len(q) :
            /\ q[k].request_type = "item_complete"
            /\ q[k].uuid = last.uuid
            /\ \E i \in 1..Len(items) : items[i].id = q[k].args.id /\ items[i].checked

WholeSync ==
    IF last.incremental
    THEN sync_after(last.pre_sync, last.pre_commands, TRUE, last.reply[1], last.ord)
    ELSE full_sync(last.pre_sync, last.pre_commands, last.reply[1], last.ord)

\* C12 - Reconciliation is persisted as a unit: whenever a sync that received
\* a Response has ended or the process has stopped during it, sync.json and
\* the queue in commands.json are together those from before the sync or
\* together those the completed reconciliation leaves.
C12_ReconciliationAsUnit ==
    (last.op = "sync" /\ last.reply # None /\ ReceivedResponse(last.reply[1]) # None) =>
        \/ /\ sync_json = last.pre_sync
           /\ get_commands(commands_json) = get_commands(last.pre_commands)
        \/ /\ sync_json = WholeSync.sync_json
           /\ get_commands(commands_json) = get_commands(WholeSync.commands_json)

\* C20 - Mutations are durable as a unit: whenever `add' or `complete' has
\* ended or the process has stopped during it, the stored items have changed
\* (a new item, or checked = true) exactly when the queue in commands.json
\* has grown by a command.
C20_MutationAsUnit ==
    (last.op \in {"add", "complete"}) =>
        (StoredItems(sync_json) # StoredItems(last.pre_sync))
            <=> (Len(get_commands(commands_json)) > Len(get_commands(last.pre_commands)))

\* The part of C20 the code keeps: on stored items with distinct ids, a
\* mutation that returns Ok has stored the item change and queued one
\* command, and one that returns an error or panics has changed neither file.
C20_ReturnedMutationIsWhole ==
    (/\ last.op \in {"add", "complete"}
     /\ last.local # "Stopped"
     /\ DistinctIds(StoredItems(last.pre_sync))) =>
        IF last.local = "Ok"
        THEN /\ StoredItems(sync_json) # StoredItems(last.pre_sync)
             /\ Len(get_commands(commands_json)) = Len(get_commands(last.pre_commands)) + 1
        ELSE /\ sync_json = last.pre_sync
             /\ commands_json = last.pre_commands

\* C13 - An empty user.inbox_project_id is never a valid filter target:
\* Model::get_inbox_items on a Model whose user.inbox_project_id is the empty
\* string returns no item, whatever Model.items holds.
C13_EmptyInboxIdMatchesNothing ==
    (last.op = "get_inbox_items" /\ last.pre_model.user.inbox_project_id = "") =>
        last.view = <<>>

\* The part of C13 the code keeps: with an empty inbox_project_id the view
\* holds no item that has a project_id.
C13_EmptyInboxIdMatchesNoProject ==
    (last.op = "get_inbox_items" /\ last.pre_model.user.inbox_project_id = "") =>
        \A i \in 1..Len(last.view) : last.view[i].project_id = ""

\* The commands of q are in the order in which they were created: uuids are
\* drawn one after the other, so a command created later has the larger one.
InCreationOrder(q) ==
    \A i, j \in 1..Len(q) : i < j => q[i].uuid < q[j].uuid

\* C14 - Request shape: every request sent carries the resource type "all"
\* and the whole queue of commands.json in the order the commands were
\* created; the request of a full sync carries the sync_token "*" and that
\* of an incremental sync the sync_token stored in sync.json.
C14_RequestShape ==
    (last.op = "sync" /\ last.request # None) =>
        /\ last.request[1].commands = get_commands(last.pre_commands)
        /\ InCreationOrder(last.request[1].commands)
        /\ last.request[1].resource_types = <<"all">>
        /\ last.request[1].sync_token =
                IF last.incremental THEN last.pre_sync[1].sync_token ELSE "*"

\* An incremental sync after an earlier sync and two mutations sent the
\* stored token and a queue of two commands.
C14_Witness ==
    /\ last.op = "sync"
    /\ last.incremental
    /\ last.request # None
    /\ last.request[1].sync_token = "t1"
    /\ Len(last.request[1].commands) = 2

\* The user stored in sync.json, None without the file or without a user.
StoredUser(sj) == IF sj = None THEN None ELSE sj[1].user

\* C15 - User replacement: after every reconciliation by the program, full
\* or incremental, the stored user is the user of the Response when the
\* Response has one, and the user stored before when it has none.
C15_UserReplacement ==
    Reconciled =>
        StoredUser(sync_json) =
            IF ReconciledResponse.user # None
            THEN ReconciledResponse.user
            ELSE StoredUser(last.pre_sync)

\* The same statement for Model::update of the library, which satisfies it.
C15_UserReplacementOfModelUpdate ==
    last.op = "update" =>
        model.user = IF UpdateResponse.user # None
                     THEN UpdateResponse.user[1]
                     ELSE last.pre_model.user

\* The two halves of C15 for the program, each on the path that keeps it:
\* full_sync stores the user of a Response that has one, and
\* incremental_sync leaves the stored user when the Response has none.
C15_UserOnTheOtherPath ==
    Reconciled =>
        /\ (~last.incremental /\ ReconciledResponse.user # None) =>
                StoredUser(sync_json) = ReconciledResponse.user
        /\ (last.incremental /\ ReconciledResponse.user = None) =>
                StoredUser(sync_json) = StoredUser(last.pre_sync)

\* `complete <number>' ran with a number in 1..len(inbox view).
CompletedInRange ==
    /\ last.op = "complete"
    /\ InboxBefore.outcome = "Ok"
    /\ last.number \in 1..Len(InboxBefore.items)

\* What C16 says of a `complete <number>' that started from the files
\* (pre_sync, pre_commands) and left (sj, cj): it returned Ok; exactly the
\* item whose id is that of the number-th entry of the inbox view is now
\* checked and the rest of sync.json is as before; the queue is the old one
\* followed by one item_complete command with a new uuid, temp_id None and
\* args.id that id; and no item with that id is in the inbox view any more.
CompleteTodoEffect(sj, cj) ==
    LET target == InboxBefore.items[last.number]
        pre    == last.pre_sync[1]
        q      == get_commands(last.pre_commands)
        q2     == get_commands(cj)
    IN  /\ last.local = "Ok"
        /\ sj # None
        /\ \E i \in 1..Len(pre.items) :
            /\ pre.items[i].id = target.id
            /\ sj[1] = [pre EXCEPT !.items[i].checked = TRUE]
        /\ Len(q2) = Len(q) + 1
        /\ SubSeq(q2, 1, Len(q)) = q
        /\ q2[Len(q2)].request_type = "item_complete"
        /\ q2[Len(q2)].temp_id = None
        /\ q2[Len(q2)].args = [id |-> target.id]
        /\ \A k \in 1..Len(q) : q[k].uuid # q2[Len(q2)].uuid
        /\ get_inbox_items(sj).outcome = "Ok"
        /\ \A k \in 1..Len(get_inbox_items(sj).items) :
            get_inbox_items(sj).items[k].id # target.id

\* C16 - `complete <number>' with number in 1..len(inbox view) has that
\* effect, whatever the stored items are.
C16_CompleteTodo ==
    CompletedInRange => CompleteTodoEffect(sync_json, commands_json)

\* C16 as amended: it has that effect when the stored items have distinct
\* ids.
C16_CompleteTodoOnDistinctIds ==
    (CompletedInRange /\ DistinctIds(StoredItems(last.pre_sync))) =>
        CompleteTodoEffect(sync_json, commands_json)

\* The second entry of an inbox view over items with distinct ids was
\* completed while a command was already queued.
C16_Witness ==
    /\ CompletedInRange
    /\ DistinctIds(StoredItems(last.pre_sync))
    /\ last.number = 2
    /\ last.local = "Ok"
    /\ Len(get_commands(last.pre_commands)) >= 1
    /\ Len(get_inbox_items(sync_json).items) = Len(InboxBefore.items) - 1

\* `add <todo>' ran on a sync.json that holds a user.
AddedWithUser ==
    /\ last.op = "add"
    /\ last.pre_sync # None
    /\ last.pre_sync[1].user # None

\* C17 - `add <todo>' on stored data with a user returns Ok; sync.json is
\* as before but for one item appended, unchecked, with the todo as content,
\* the project_id user.inbox_project_id and an id T that no stored item and
\* no queued command holds; the queue is the old one followed by one
\* item_add command with a new uuid, temp_id T and args with that project_id
\* and content.
C17_AddTodo ==
    AddedWithUser =>
        /\ last.local = "Ok"
        /\ sync_json # None
        /\ LET pre      == last.pre_sync[1]
               q        == get_commands(last.pre_commands)
               q2       == get_commands(commands_json)
               new_item == sync_json[1].items[Len(sync_json[1].items)]
               command  == q2[Len(q2)]
           IN  /\ Len(sync_json[1].items) = Len(pre.items) + 1
               /\ sync_json[1] = [pre EXCEPT !.items = Append(pre.items, new_item)]
               /\ ~new_item.checked
               /\ new_item.content = last.todo
               /\ new_item.project_id = pre.user[1].inbox_project_id
               /\ \A i \in 1..Len(pre.items) : pre.items[i].id # new_item.id
               /\ Len(q2) = Len(q) + 1
               /\ SubSeq(q2, 1, Len(q)) = q
               /\ command.request_type = "item_add"
               /\ command.temp_id # None
               /\ UuidToString(command.temp_id[1]) = new_item.id
               /\ command.args = [project_id |-> new_item.project_id, content |-> last.todo]
               /\ \A k \in 1..Len(q) :
                    /\ q[k].uuid # command.uuid
                    /\ q[k].temp_id # command.temp_id

\* A todo was added to stored items and a queue that were not empty.
C17_Witness ==
    /\ AddedWithUser
    /\ last.local = "Ok"
    /\ Len(StoredItems(last.pre_sync)) >= 1
    /\ Len(get_commands(last.pre_commands)) >= 1
    /\ Len(get_commands(commands_json)) = Len(get_commands(last.pre_commands)) + 1

\* Every item_add command of the queue q has exactly one item whose id is
\* the textual form of its temp_id.
Paired(items, q) ==
    \A k \in 1..Len(q) :
        q[k].request_type = "item_add" =>
            Cardinality({i \in 1..Len(items) :
                            items[i].id = UuidToString(q[k].temp_id[1])}) = 1

FullSyncCoversAdds ==
    (Reconciled /\ ~last.incremental) =>
        \A k \in 1..Len(get_commands(last.pre_commands)) :
            LET command == get_commands(last.pre_commands)[k] IN
                command.request_type = "item_add" =>
                    command.temp_id[1] \in DOMAIN ReconciledResponse.temp_id_mapping

Pointing(items, q) ==
    \A k \in 1..Len(q) :
        q[k].request_type = "item_complete" =>
            \E i \in 1..Len(items) : items[i].id = q[k].args.id

\* C19 - Pending completions keep pointing at an existing item: add,
\* complete and every incremental reconciliation by the program, a remap of
\* the temp id of a completed item included, lead from files in which every
\* queued item_complete command names the id of a stored item to files in
\* which every one does.
C19_CompletionsPointAtItems ==
    (/\ last.op \in {"add", "complete"} \/ (Reconciled /\ last.incremental)
     /\ Pointing(StoredItems(last.pre_sync), get_commands(last.pre_commands))) =>
        Pointing(StoredItems(sync_json), get_commands(commands_json))

\* The part of C19 the code keeps: add and complete, and an incremental
\* reconciliation whose temp_id_mapping renames no item, do so.
C19_CompletionsPointWithoutRemap ==
    (/\ \/ last.op \in {"add", "complete"}
        \/ /\ Reconciled
           /\ last.incremental
           /\ StoredItems(sync_json) = StoredItems(last.pre_sync)
     /\ Pointing(StoredItems(last.pre_sync), get_commands(last.pre_commands))) =>
        Pointing(StoredItems(sync_json), get_commands(commands_json))

====
